---- MODULE Spec2Model ----
(***************************************************************************)
(* A model of the personnummer crate (src/src/lib.rs): parsing a Swedish   *)
(* personal identity number from text (TryFrom<&str> for Personnummer),    *)
(* and the queries on the parsed value (format, valid, get_age, the        *)
(* accessors).                                                             *)
(*                                                                         *)
(* A string is a sequence of characters; a character is a one-character    *)
(* TLA+ string, except the one non-ASCII character of the model, which is  *)
(* written by its code point.                                              *)
(***************************************************************************)
EXTENDS Integers, Sequences, FiniteSets, TLC

VARIABLES
    pnr,              \* the &str handed to Personnummer::new
    now,              \* what Utc::now() returns (a date; the same for every call)
    overflow_checks,  \* whether the build panics on integer overflow (debug) or wraps (release)
    result,           \* the outcome of Personnummer::new(pnr)
    query             \* the last query made on the parsed value, with what it returned

vars == <<pnr, now, overflow_checks, result, query>>

----------------------------------------------------------------------------
(* Characters and strings *)

AsciiDigits == <<"0", "1", "2", "3", "4", "5", "6", "7", "8", "9">>

IsAsciiDigit(c) == \E i \in 1..10 : AsciiDigits[i] = c

\* ARABIC-INDIC DIGIT THREE: a decimal digit (Unicode class Nd) that is not ASCII.
ArabicIndicThree == "U+0663"

\* \d of the regex crate: Unicode is on by default, so \d is \p{Nd}.
IsRegexDigit(c) == IsAsciiDigit(c) \/ c = ArabicIndicThree

\* char::to_digit(10): Some(d) for an ASCII digit, None otherwise (-1 here).
to_digit(c) == IF IsAsciiDigit(c) THEN (CHOOSE i \in 1..10 : AsciiDigits[i] = c) - 1 ELSE -1

\* A u32 is kept as two 16-bit limbs where it can exceed the year range:
\* the value is hi * Limb + lo.
Limb == 65536

RECURSIVE DecimalValue(_)
DecimalValue(s) ==
    IF s = <<>> THEN 0
    ELSE 10 * DecimalValue(SubSeq(s, 1, Len(s) - 1)) + to_digit(s[Len(s)])

\* str::parse::<u32>() and str::parse::<u8>() on a capture of the regex (at most
\* two digits for the century, three for the others, so the value always
\* fits): Err on the empty string and on any character that is not an ASCII digit.
parse_int(s) ==
    IF s # <<>> /\ \A i \in 1..Len(s) : IsAsciiDigit(s[i])
    THEN [ok |-> TRUE, value |-> DecimalValue(s)]
    ELSE [ok |-> FALSE, value |-> 0]

RECURSIVE DecimalDigits(_)
DecimalDigits(n) ==
    IF n < 10 THEN <<AsciiDigits[n + 1]>>
    ELSE DecimalDigits(n \div 10) \o <<AsciiDigits[(n % 10) + 1]>>

RECURSIVE Zeros(_)
Zeros(k) == IF k <= 0 THEN <<>> ELSE <<"0">> \o Zeros(k - 1)

\* format!("{:0w}", n) for n >= 0: the decimal digits, zero-padded on the left to
\* at least w characters (never cut); w = 0 is format!("{}", n).
fmt_padded(n, w) ==
    LET d == DecimalDigits(n) IN Zeros(w - Len(d)) \o d

----------------------------------------------------------------------------
(* The grammar: PNR_REGEX *)

NoCapture == [matched |-> FALSE, str |-> <<>>]

Capture(s, from, to) == [matched |-> TRUE, str |-> SubSeq(s, from, to)]

\* The ways the optional parts of the pattern can match, in the order a
\* leftmost-first regex prefers them: each optional part is greedy, so "present"
\* is tried before "absent", the earlier part deciding first.
\* <<the century is there, a separator character is there, the control digit is there>>
RegexAlternatives ==
    << <<TRUE, TRUE, TRUE>>,   <<TRUE, TRUE, FALSE>>,
       <<TRUE, FALSE, TRUE>>,  <<TRUE, FALSE, FALSE>>,
       <<FALSE, TRUE, TRUE>>,  <<FALSE, TRUE, FALSE>>,
       <<FALSE, FALSE, TRUE>>, <<FALSE, FALSE, FALSE>> >>

\* The captures of one alternative on s, or no match. The pattern is anchored
\* at both ends ($ is the end of the text: no multi-line mode, no trailing
\* newline allowed), so the alternative fixes the length of s.
RegexTry(s, alt) ==
    LET c    == IF alt[1] THEN 2 ELSE 0
        sp   == IF alt[2] THEN 1 ELSE 0
        ct   == IF alt[3] THEN 1 ELSE 0
        num  == c + 6 + sp           \* the last position before the number
        fits == /\ Len(s) = num + 3 + ct
                /\ \A i \in 1..(c + 6) : IsRegexDigit(s[i])
                /\ alt[2] => s[c + 7] \in {"-", "+"}
                /\ \A i \in (num + 1)..(num + 3 + ct) : IsRegexDigit(s[i])
    IN  IF ~fits THEN [matched |-> FALSE]
        ELSE [matched |-> TRUE,
              century |-> IF alt[1] THEN Capture(s, 1, 2) ELSE NoCapture,
              year    |-> Capture(s, c + 1, c + 2),
              month   |-> Capture(s, c + 3, c + 4),
              day     |-> Capture(s, c + 5, c + 6),
              sep     |-> Capture(s, c + 7, c + 6 + sp),
              number  |-> Capture(s, num + 1, num + 3),
              control |-> Capture(s, num + 4, num + 3 + ct)]

\* PNR_REGEX.captures(pnr): the captures of the first alternative that matches.
PNR_REGEX(s) ==
    LET hits == {k \in 1..Len(RegexAlternatives) : RegexTry(s, RegexAlternatives[k]).matched}
    IN  IF hits = {} THEN [matched |-> FALSE]
        ELSE RegexTry(s, RegexAlternatives[CHOOSE k \in hits : \A j \in hits : k <= j])

----------------------------------------------------------------------------
(* Parsing: TryFrom<&str> for Personnummer *)

\* The extra value added to coordination numbers.
COORDINATION_NUMBER == 60

None == [some |-> FALSE, value |-> 0]

Some(v) == [some |-> TRUE, value |-> v]

\* impl FromStr for Seperator, then .ok(): "-" and "+" are the two separators,
\* anything else (the empty capture included) is no separator.
Seperator_from_str(s) ==
    IF s = <<"-">> THEN [some |-> TRUE, value |-> "Minus"]
    ELSE IF s = <<"+">> THEN [some |-> TRUE, value |-> "Plus"]
    ELSE [some |-> FALSE, value |-> "Minus"]

\* impl Display for Seperator
Seperator_fmt(sep) == IF sep = "Plus" THEN <<"+">> ELSE <<"-">>

\* The closure match_to_u32: the capture parsed as u32, 0 when it does not parse.
match_to_u32(m) == parse_int(m.str).value

\* a - b in u32 for a, b < Limb: a panic when overflow checks are on, wrapping
\* otherwise (a - b + 2^32 = (Limb - 1) * Limb + (Limb + a - b)).
sub_u32(a, b, checks) ==
    IF a >= b THEN [panic |-> FALSE, hi |-> 0, lo |-> a - b]
    ELSE IF checks THEN [panic |-> TRUE, hi |-> 0, lo |-> 0]
    ELSE [panic |-> FALSE, hi |-> Limb - 1, lo |-> Limb + a - b]

\* x >= n for a u32 x in limbs and n < Limb
ge_u32(x, n) == x.hi > 0 \/ x.lo >= n

\* chrono's NaiveDate::from_ymd_opt for the years 0..9999 the parser can build.
is_leap_year(y) == y % 4 = 0 /\ (y % 100 # 0 \/ y % 400 = 0)

days_in_month(y, m) ==
    IF m = 2 THEN (IF is_leap_year(y) THEN 29 ELSE 28)
    ELSE IF m \in {4, 6, 9, 11} THEN 30
    ELSE 31

from_ymd_opt(y, m, d) ==
    IF m >= 1 /\ m <= 12 /\ d >= 1 /\ d <= days_in_month(y, m)
    THEN Some([year |-> y, month |-> m, day |-> d])
    ELSE [some |-> FALSE, value |-> [year |-> 0, month |-> 0, day |-> 0]]

\* resolve_century with "over 100" for "100 or more" years.
resolve_century_over_hundred(century, year, seperator, current_year, checks) ==
    IF century.some
    THEN LET age == sub_u32(current_year, century.value * 100 + year, checks)
         IN  IF age.panic THEN [panic |-> TRUE, century |-> 0, seperator |-> "Minus"]
             ELSE IF ge_u32(age, 101)
                  THEN [panic |-> FALSE, century |-> century.value, seperator |-> "Plus"]
                  ELSE [panic |-> FALSE, century |-> century.value, seperator |-> "Minus"]
    ELSE LET plus      == seperator.some /\ seperator.value = "Plus"
             base_year == IF plus THEN current_year - 100 ELSE current_year
         IN  [panic |-> FALSE,
              century |-> (base_year - ((base_year - year) % 100)) \div 100,
              seperator |-> IF plus THEN "Plus" ELSE "Minus"]

\* resolve_century with the base year of a '+' left at the current year.
resolve_century_plus_base_now(century, year, seperator, current_year, checks) ==
    IF century.some
    THEN LET age == sub_u32(current_year, century.value * 100 + year, checks)
         IN  IF age.panic THEN [panic |-> TRUE, century |-> 0, seperator |-> "Minus"]
             ELSE IF ge_u32(age, 100)
                  THEN [panic |-> FALSE, century |-> century.value, seperator |-> "Plus"]
                  ELSE [panic |-> FALSE, century |-> century.value, seperator |-> "Minus"]
    ELSE LET plus      == seperator.some /\ seperator.value = "Plus"
             base_year == current_year
         IN  [panic |-> FALSE,
              century |-> (base_year - ((base_year - year) % 100)) \div 100,
              seperator |-> IF plus THEN "Plus" ELSE "Minus"]

\* The match on the captured century (the century and the separator of the value).
\* century is an Option<u32>, seperator an Option<Seperator>. Without a century,
\* current_year - 100 and base_year - year cannot overflow for a clock year
\* of 199 or later, which every clock has.
resolve_century(century, year, seperator, current_year, checks) ==
    IF century.some
    THEN LET age == sub_u32(current_year, century.value * 100 + year, checks)
         IN  IF age.panic THEN [panic |-> TRUE, century |-> 0, seperator |-> "Minus"]
             ELSE IF ge_u32(age, 100)
                  THEN [panic |-> FALSE, century |-> century.value, seperator |-> "Plus"]
                  ELSE [panic |-> FALSE, century |-> century.value, seperator |-> "Minus"]
    ELSE LET plus      == seperator.some /\ seperator.value = "Plus"
             base_year == IF plus THEN current_year - 100 ELSE current_year
         IN  [panic |-> FALSE,
              century |-> (base_year - ((base_year - year) % 100)) \div 100,
              seperator |-> IF plus THEN "Plus" ELSE "Minus"]

\* is_coordination_day with the bound one too high.
is_coordination_day_above_61(day) == day > COORDINATION_NUMBER + 1

\* coordination: day > COORDINATION_NUMBER
is_coordination_day(day) == day > COORDINATION_NUMBER

NoDate == [year |-> 0, month |-> 0, day |-> 0]

Outcome(tag, date, serial, control, seperator, coordination) ==
    [tag |-> tag, date |-> date, serial |-> serial, control |-> control,
     seperator |-> seperator, coordination |-> coordination]

\* The outcomes of a call that returns no Personnummer.
NotCalled          == Outcome("NotCalled", NoDate, 0, 0, "Minus", FALSE)
Err_InvalidInput   == Outcome("InvalidInput", NoDate, 0, 0, "Minus", FALSE)
Err_InvalidDate    == Outcome("InvalidDate", NoDate, 0, 0, "Minus", FALSE)
Panicked           == Outcome("Panic", NoDate, 0, 0, "Minus", FALSE)

\* Personnummer::try_from(pnr) when Utc::now() is clock.
try_from(s, clock, checks) ==
    LET caps == PNR_REGEX(s) IN
    IF ~caps.matched THEN Err_InvalidInput
    ELSE
    LET cent      == IF caps.century.matched /\ parse_int(caps.century.str).ok
                     THEN Some(parse_int(caps.century.str).value) ELSE None
        year      == match_to_u32(caps.year)
        month     == match_to_u32(caps.month)
        day       == match_to_u32(caps.day)
        seperator == Seperator_from_str(caps.sep.str)
        serial    == match_to_u32(caps.number)
        control   == parse_int(caps.control.str).value
        res       == resolve_century(cent, year, seperator, clock.year, checks)
        date      == from_ymd_opt(res.century * 100 + year, month, day % COORDINATION_NUMBER)
    IN  IF res.panic THEN Panicked
        ELSE IF ~date.some THEN Err_InvalidDate
        ELSE Outcome("Ok", date.value, serial, control, res.seperator,
                     is_coordination_day(day))

----------------------------------------------------------------------------
(* The queries on a Personnummer p *)

\* day_or_coordination without the offset of a coordination number.
day_or_coordination_plain_day(p) == p.date.day

\* day_or_coordination of format() and valid(): the day as it is written.
day_or_coordination(p) ==
    IF p.coordination THEN p.date.day + COORDINATION_NUMBER ELSE p.date.day

\* format_long with the year padded to two characters instead of four.
format_long_year_width_2(p) ==
    fmt_padded(p.date.year, 2) \o fmt_padded(p.date.month, 2)
        \o fmt_padded(p.date.day + (IF p.coordination THEN COORDINATION_NUMBER ELSE 0), 2)
        \o fmt_padded(p.serial, 3) \o fmt_padded(p.control, 0)

\* format!("{:04}{:02}{:02}{:03}{}", year, month, day_or_coordination, serial, control)
format_long(p) ==
    fmt_padded(p.date.year, 4) \o fmt_padded(p.date.month, 2)
        \o fmt_padded(day_or_coordination(p), 2)
        \o fmt_padded(p.serial, 3) \o fmt_padded(p.control, 0)

\* format!("{:02}{:02}{:02}{}{:03}{}", year % 100, month, day_or_coordination,
\*         seperator, serial, control)
format_short(p) ==
    fmt_padded(p.date.year % 100, 2) \o fmt_padded(p.date.month, 2)
        \o fmt_padded(day_or_coordination(p), 2)
        \o Seperator_fmt(p.seperator)
        \o fmt_padded(p.serial, 3) \o fmt_padded(p.control, 0)

\* Personnummer::format
format(p) == [long |-> format_long(p), short |-> format_short(p)]

\* The fold of luhn over the characters of value, from the left, idx from 0.
RECURSIVE luhn_fold(_, _)
luhn_fold(value, n) ==
    IF n = 0 THEN 0
    ELSE LET idx == n - 1
             d   == to_digit(value[n])
             v   == IF d < 0 THEN 0 ELSE d
             w   == IF idx % 2 = 0 THEN v * 2 ELSE v
         IN  luhn_fold(value, n - 1) + (IF w > 9 THEN w - 9 ELSE w)

\* luhn without the last % 10: 10 where the check digit is 0.
luhn_without_last_mod(value) ==
    10 - ((luhn_fold(value, Len(value)) % 256) % 10)

\* luhn: (10 - (checksum as u8 % 10)) % 10
luhn(value) ==
    LET checksum == luhn_fold(value, Len(value))
    IN  (10 - ((checksum % 256) % 10)) % 10

\* Personnummer::valid
valid(p) ==
    LET to_control == fmt_padded(p.date.year % 100, 2) \o fmt_padded(p.date.month, 2)
                          \o fmt_padded(day_or_coordination(p), 2)
                          \o fmt_padded(p.serial, 3)
    IN  p.serial > 0 /\ luhn(to_control) = p.control

\* get_age with the birthday itself not yet counted (>= for > on the day).
get_age_day_not_counted(p, clock) ==
    IF \/ p.date.month > clock.month
       \/ (p.date.month = clock.month /\ p.date.day >= clock.day)
    THEN clock.year - p.date.year - 1
    ELSE clock.year - p.date.year

\* Personnummer::get_age when Utc::now() is clock
get_age(p, clock) ==
    IF \/ p.date.month > clock.month
       \/ (p.date.month = clock.month /\ p.date.day > clock.day)
    THEN clock.year - p.date.year - 1
    ELSE clock.year - p.date.year

\* Personnummer::is_female
is_female(p) == (p.serial % 10) % 2 = 0

\* Personnummer::is_male
is_male(p) == ~is_female(p)

\* Personnummer::is_coordination_number, year, month, day, serial, seperator
accessors(p) ==
    [is_coordination_number |-> p.coordination,
     year |-> p.date.year, month |-> p.date.month, day |-> p.date.day,
     serial |-> p.serial, seperator |-> p.seperator,
     is_female |-> is_female(p), is_male |-> is_male(p)]

----------------------------------------------------------------------------
(* The inputs: the text handed to Personnummer::new and the clock *)

FirstClockYear == 2026
NumClockYears == 2
MaxSerial == 4

TwoDigits(n) == <<AsciiDigits[(n \div 10) + 1], AsciiDigits[(n % 10) + 1]>>

ThreeDigits(n) == <<AsciiDigits[(n \div 100) + 1]>> \o TwoDigits(n % 100)

\* Utc::now(): a day of each clock year, chosen among the birthdays below so
\* that a birthday can fall before, on and after it.
Clocks ==
    {[year |-> y, month |-> 4, day |-> 29] :
        y \in FirstClockYear..(FirstClockYear + NumClockYears - 1)}

Separators == {<<>>, <<"-">>, <<"+">>}

\* Dates: every way of writing the century, years on both sides of the clock,
\* leap and common years, months and days in and out of the calendar, days in
\* and out of the coordination range.
DateCenturies == {<<>>} \cup {TwoDigits(n) : n \in {0, 17, 18, 19, 20, 21}}
DateYears     == {TwoDigits(n) : n \in {0, 24, 26, 27, 99}}
DateMonths    == {TwoDigits(n) : n \in {0, 2, 4, 12, 13}}
DateDays      == {TwoDigits(n) : n \in {0, 1, 28, 29, 30, 31, 32, 60, 61, 89, 91, 92}}

DateInputs ==
    {c \o y \o m \o d \o sp \o <<"0", "0", "1", "7">> :
        c \in DateCenturies, y \in DateYears, m \in DateMonths, d \in DateDays,
        sp \in Separators}

\* Checksums: serial numbers from 000 on and of the tests, every control
\* digit and none.
ChecksumSerials == {ThreeDigits(n) : n \in (0..MaxSerial) \cup {239, 323, 916, 999}}
ChecksumControls == {<<>>} \cup {<<AsciiDigits[i]>> : i \in 1..10}

ChecksumInputs ==
    {c \o y \o m \o d \o <<"-">> \o n \o ct :
        c \in {<<>>, <<"1", "9">>}, y \in {TwoDigits(k) : k \in {0, 64, 90}},
        m \in {<<"0", "8">>},
        d \in {<<"0", "1">>, <<"2", "3">>, <<"6", "1">>},
        n \in ChecksumSerials, ct \in ChecksumControls}

\* Other text: the strings of the tests that are no personal identity number,
\* and well-formed strings with one character replaced, inserted or removed.
WellFormed ==
    { <<"1","9","9","0","0","1","0","1","-","0","0","1","7">>,
      <<"9","0","0","1","0","1","+","0","0","1","7">>,
      <<"1","9","6","4","0","8","2","3","3","2","3","4">>,
      <<"6","4","0","3","2","7","3","8","1","3">>,
      <<"9","0","0","1","0","1","0","0","1">> }

OtherChars == {"/", "_", " ", "S", "\n", "-", "0", ArabicIndicThree}

ReplaceAt(s, i, c) == [s EXCEPT ![i] = c]

InsertAt(s, i, c) == SubSeq(s, 1, i - 1) \o <<c>> \o SubSeq(s, i, Len(s))

RemoveAt(s, i) == SubSeq(s, 1, i - 1) \o SubSeq(s, i + 1, Len(s))

OtherInputs ==
    { <<>>, <<"n","o","t","-","a","-","d","a","t","e">>,
      <<"2","0","1","7","-","0","2","-","2","9">> }
    \cup UNION {{ReplaceAt(s, i, c) : i \in 1..Len(s), c \in OtherChars} : s \in WellFormed}
    \cup UNION {{InsertAt(s, i, c) : i \in 1..(Len(s) + 1), c \in OtherChars} : s \in WellFormed}
    \cup UNION {{RemoveAt(s, i) : i \in 1..Len(s)} : s \in WellFormed}

Inputs == DateInputs \cup ChecksumInputs \cup OtherInputs

----------------------------------------------------------------------------
(* The state machine *)

NoQuery == [op |-> "none", arg |-> <<>>, ret |-> FALSE]

Init ==
    /\ pnr \in Inputs
    /\ now \in Clocks
    /\ overflow_checks \in BOOLEAN
    /\ result = NotCalled
    /\ query = NoQuery

\* let p = Personnummer::new(pnr)
New ==
    /\ result.tag = "NotCalled"
    /\ result' = try_from(pnr, now, overflow_checks)
    /\ UNCHANGED <<pnr, now, overflow_checks, query>>

\* p.format()
Format ==
    /\ result.tag = "Ok"
    /\ query' = [op |-> "format", arg |-> <<>>, ret |-> format(result)]
    /\ UNCHANGED <<pnr, now, overflow_checks, result>>

\* Personnummer::new(&p.format().long())
NewFromLong ==
    /\ query.op = "format"
    /\ query' = [op |-> "new_long", arg |-> query.ret.long,
                 ret |-> try_from(query.ret.long, now, overflow_checks)]
    /\ UNCHANGED <<pnr, now, overflow_checks, result>>

\* Personnummer::new(&p.format().short())
NewFromShort ==
    /\ query.op = "format"
    /\ query' = [op |-> "new_short", arg |-> query.ret.short,
                 ret |-> try_from(query.ret.short, now, overflow_checks)]
    /\ UNCHANGED <<pnr, now, overflow_checks, result>>

\* p.valid()
Valid ==
    /\ result.tag = "Ok"
    /\ query' = [op |-> "valid", arg |-> <<>>, ret |-> valid(result)]
    /\ UNCHANGED <<pnr, now, overflow_checks, result>>

\* p.get_age()
GetAge ==
    /\ result.tag = "Ok"
    /\ query' = [op |-> "get_age", arg |-> <<>>, ret |-> get_age(result, now)]
    /\ UNCHANGED <<pnr, now, overflow_checks, result>>

\* p.is_coordination_number(), p.year(), p.month(), p.day(), p.serial(), ...
Accessors ==
    /\ result.tag = "Ok"
    /\ query' = [op |-> "accessors", arg |-> <<>>, ret |-> accessors(result)]
    /\ UNCHANGED <<pnr, now, overflow_checks, result>>

Next ==
    \/ New
    \/ Format
    \/ NewFromLong
    \/ NewFromShort
    \/ Valid
    \/ GetAge
    \/ Accessors

Spec == Init /\ [][Next]_vars

----------------------------------------------------------------------------
(* The documented grammar and calendar, read off the text itself:               *)
(*   [century: 2 digits]? yy mm dd ['-' | '+']? nnn [control: 1 digit]?         *)
(* with the decimal digits 0-9 only.                                            *)

IsSepChar(c) == c = "-" \/ c = "+"

\* Where the fields of a text of this shape lie: a separator can only stand
\* at position 7 (no century) or 9 (century); the length then tells whether a
\* century and a control digit are there.
TextSepAt(s) ==
    IF Len(s) >= 7 /\ IsSepChar(s[7]) THEN 7
    ELSE IF Len(s) >= 9 /\ IsSepChar(s[9]) THEN 9
    ELSE 0

TextHasCentury(s) == Len(s) - (IF TextSepAt(s) > 0 THEN 1 ELSE 0) >= 11

TextOffset(s) == IF TextHasCentury(s) THEN 2 ELSE 0

TextNumberAt(s) == TextOffset(s) + 6 + (IF TextSepAt(s) > 0 THEN 1 ELSE 0) + 1

TextHasControl(s) == Len(s) = TextNumberAt(s) + 3

MatchesGrammar(s) ==
    /\ Len(s) \in {TextNumberAt(s) + 2, TextNumberAt(s) + 3}
    /\ TextSepAt(s) \in {0, TextOffset(s) + 7}
    /\ \A i \in 1..Len(s) : i # TextSepAt(s) => IsAsciiDigit(s[i])

DigitOf(c) == CHOOSE d \in 0..9 : AsciiDigits[d + 1] = c

TextPair(s, i) == 10 * DigitOf(s[i]) + DigitOf(s[i + 1])

TextCentury(s) == TextPair(s, 1)
TextYear(s)    == TextPair(s, TextOffset(s) + 1)
TextMonth(s)   == TextPair(s, TextOffset(s) + 3)
TextDay(s)     == TextPair(s, TextOffset(s) + 5)
TextPlus(s)    == TextSepAt(s) > 0 /\ s[TextSepAt(s)] = "+"
TextSerial(s)  == 10 * TextPair(s, TextNumberAt(s)) + DigitOf(s[TextNumberAt(s) + 2])
TextControl(s) == IF TextHasControl(s) THEN DigitOf(s[Len(s)]) ELSE 0

\* The nine digits yy mm dd nnn as written in the text.
TextNineDigits(s) ==
    [i \in 1..9 |-> IF i <= 6 THEN DigitOf(s[TextOffset(s) + i])
                    ELSE DigitOf(s[TextNumberAt(s) + i - 7])]

\* The Luhn check digit of a sequence of digits: positions 0, 2, 4, ... (from
\* the left) are doubled, a doubled digit above 9 loses 9.
LuhnTerm(d, pos) == IF pos % 2 = 0 THEN (IF 2 * d > 9 THEN 2 * d - 9 ELSE 2 * d) ELSE d

RECURSIVE LuhnSum(_, _)
LuhnSum(ds, k) == IF k = 0 THEN 0 ELSE LuhnSum(ds, k - 1) + LuhnTerm(ds[k], k - 1)

CheckDigit(ds) == (10 - (LuhnSum(ds, Len(ds)) % 10)) % 10

\* The year the text stands for at a clock year: the century as written, or the
\* one year ending in yy among the hundred up to the base year.
TextResolvedYear(s, current_year) ==
    IF TextHasCentury(s) THEN TextCentury(s) * 100 + TextYear(s)
    ELSE LET base == IF TextPlus(s) THEN current_year - 100 ELSE current_year
         IN  CHOOSE y \in (base - 99)..base : y % 100 = TextYear(s)

MonthLengths == <<31, 28, 31, 30, 31, 30, 31, 31, 30, 31, 30, 31>>

GregorianLeap(y) == (y % 400 = 0) \/ (y % 4 = 0 /\ y % 100 # 0)

RealDate(y, m, d) ==
    /\ m \in 1..12
    /\ d >= 1
    /\ d <= MonthLengths[m] + (IF m = 2 /\ GregorianLeap(y) THEN 1 ELSE 0)

\* Dates in calendar order.
DateNumber(y, m, d) == y * 10000 + m * 100 + d

SameIdentifier(p, q) ==
    /\ q.tag = "Ok"
    /\ q.date = p.date
    /\ q.serial = p.serial
    /\ q.control = p.control
    /\ q.coordination = p.coordination

----------------------------------------------------------------------------
(* The claims *)

Parsed == result.tag = "Ok"

Called == result.tag # "NotCalled"

\* The birth year lies in the 200 years up to the current year: the years a
\* text without a century can stand for.
WithinTwoCenturies == now.year - 200 < result.date.year /\ result.date.year <= now.year

\* C1 (as stated): parsing format().short() of any parsed value, at the same
\* clock, succeeds and gives the same birth date, serial, control digit and
\* coordination flag.
C1_ShortRoundTrip ==
    query.op = "new_short" => SameIdentifier(result, query.ret)

\* C1 (amended): the short-form round trip holds for every parsed value whose
\* birth year lies in the 200 years up to and including the current year.
C1_ShortRoundTripWithinTwoCenturies ==
    (query.op = "new_short" /\ WithinTwoCenturies) => SameIdentifier(result, query.ret)

C1_Witness ==
    /\ query.op = "new_short"
    /\ WithinTwoCenturies
    /\ MatchesGrammar(pnr) /\ TextHasCentury(pnr)
    /\ result.seperator = "Plus"
    /\ result.coordination
    /\ SameIdentifier(result, query.ret)

\* C2: parsing format().long() of any parsed value, at the same clock, succeeds
\* and gives the same birth date, serial, control digit and coordination flag,
\* and formatting the re-parsed value gives the same two strings again.
C2_LongRoundTrip ==
    query.op = "new_long" =>
        /\ SameIdentifier(result, query.ret)
        /\ format(query.ret) = format(result)

C2_Witness ==
    /\ query.op = "new_long"
    /\ MatchesGrammar(pnr) /\ ~TextHasCentury(pnr) /\ TextPlus(pnr)
    /\ result.coordination
    /\ query.arg # pnr
    /\ SameIdentifier(result, query.ret)

\* C3: a text that does not match the documented grammar is answered with
\* InvalidInput: never with a value, never with InvalidDate.
C3_OutsideGrammarIsInvalidInput ==
    (Called /\ ~MatchesGrammar(pnr)) => result.tag = "InvalidInput"

\* C4: a text that matches the grammar is answered with InvalidDate when
\* (resolved year, month, day mod 60) is no calendar date and with a value
\* otherwise, and with nothing else.
C4_GrammarTextIsDateOrValue ==
    (Called /\ MatchesGrammar(pnr)) =>
        IF RealDate(TextResolvedYear(pnr, now.year), TextMonth(pnr), TextDay(pnr) % 60)
        THEN result.tag = "Ok"
        ELSE result.tag = "InvalidDate"

\* C5: valid() is true exactly when the serial is above 0 and the Luhn check
\* digit of the nine digits yy mm dd nnn (dd as written, with the +60 of a
\* coordination number) is the control digit, a missing control digit counting
\* as 0; the check digit lies in 0..9. The nine digits are those of the text
\* when the text is of the documented grammar, and those of the value always.
C5_ValidIsSerialAndLuhn ==
    query.op = "valid" =>
        LET written == day_or_coordination(result)
            yy      == result.date.year % 100
            nine    == << yy \div 10, yy % 10,
                          result.date.month \div 10, result.date.month % 10,
                          written \div 10, written % 10,
                          result.serial \div 100, (result.serial \div 10) % 10,
                          result.serial % 10 >>
        IN  /\ CheckDigit(nine) \in 0..9
            /\ query.ret = (result.serial > 0 /\ CheckDigit(nine) = result.control)
            /\ MatchesGrammar(pnr) =>
                   /\ nine = TextNineDigits(pnr)
                   /\ query.ret = (TextSerial(pnr) > 0
                                   /\ CheckDigit(TextNineDigits(pnr)) = TextControl(pnr))

C5_Witness ==
    /\ query.op = "valid"
    /\ query.ret = TRUE
    /\ MatchesGrammar(pnr) /\ ~TextHasControl(pnr)
    /\ result.coordination

C7_CoordinationIsDayAboveSixty ==
    /\ Parsed => /\ IsAsciiDigit(pnr[TextOffset(pnr) + 5])
                 /\ IsAsciiDigit(pnr[TextOffset(pnr) + 6])
                 /\ TextDay(pnr) \notin (32..60) \cup (92..99)
    /\ query.op = "accessors" =>
           /\ query.ret.is_coordination_number <=> TextDay(pnr) > 60
           /\ TextDay(pnr) > 60 =>
                  query.ret.day = TextDay(pnr) - 60 /\ query.ret.day \in 1..31
           /\ TextDay(pnr) <= 60 => query.ret.day = TextDay(pnr)

C7_Witness ==
    /\ query.op = "accessors"
    /\ query.ret.is_coordination_number
    /\ TextDay(pnr) = 91
    /\ query.ret.day = 31

\* C8: get_age() is the number of whole years from the birth date to the
\* current date: the difference of the years, less one exactly when the
\* current (month, day) is earlier than the birth (month, day).
C8_AgeIsWholeYears ==
    query.op = "get_age" =>
        LET b == result.date
            earlier == now.month * 100 + now.day < b.month * 100 + b.day
        IN  /\ query.ret = now.year - b.year - (IF earlier THEN 1 ELSE 0)
            /\ DateNumber(b.year + query.ret, b.month, b.day)
                   <= DateNumber(now.year, now.month, now.day)
            /\ DateNumber(b.year + query.ret + 1, b.month, b.day)
                   > DateNumber(now.year, now.month, now.day)

C8_Witness ==
    /\ query.op = "get_age"
    /\ query.ret = 100
    /\ result.date.month = now.month /\ result.date.day = now.day

\* C9: with a century in the text, the birth year is century * 100 + year and
\* the separator is Plus exactly when current_year - (century * 100 + year)
\* is 100 or more, Minus otherwise, birth years after the current year included.
C9_CenturyGivenYearAndSeparator ==
    (Called /\ MatchesGrammar(pnr) /\ TextHasCentury(pnr)
        /\ result.tag \notin {"InvalidInput", "InvalidDate"}) =>
        LET y == TextCentury(pnr) * 100 + TextYear(pnr)
        IN  /\ result.tag = "Ok"
            /\ result.date.year = y
            /\ result.seperator = (IF now.year - y >= 100 THEN "Plus" ELSE "Minus")

\* C10: without a century in the text, the birth year is the one year ending
\* in yy that is not after the base year and less than 100 years before it,
\* the base year being the current year, or 100 years earlier for a '+'; the
\* separator is Plus for a '+' and Minus otherwise.
C10_NoCenturyYearAndSeparator ==
    (query.op = "accessors" /\ MatchesGrammar(pnr) /\ ~TextHasCentury(pnr)) =>
        LET base == IF TextPlus(pnr) THEN now.year - 100 ELSE now.year
            y    == query.ret.year
        IN  /\ y % 100 = TextYear(pnr)
            /\ y <= base
            /\ base - y < 100
            /\ query.ret.seperator = (IF TextPlus(pnr) THEN "Plus" ELSE "Minus")
            /\ ~TextPlus(pnr) => (y <= now.year /\ now.year - y < 100)

C10_Witness ==
    /\ query.op = "accessors"
    /\ MatchesGrammar(pnr) /\ ~TextHasCentury(pnr) /\ TextPlus(pnr)
    /\ TextYear(pnr) = now.year % 100
    /\ query.ret.year = now.year - 100
    /\ query.ret.seperator = "Plus"

====
